---- MODULE Spec2Model ----
(***************************************************************************)
(* Model of FileBackend (src/tree_store/page_store/file_backend/           *)
(* optimized.rs): one on-disk file, several independent handles to it,     *)
(* and the StorageBackend operations new / len / read / write / set_len /  *)
(* sync_data / close on the three statically selected platform paths.      *)
(* The std::fs::File primitives the code calls (try_lock, unlock,          *)
(* read_exact_at, seek_read, write_all_at, seek_write, set_len, metadata,  *)
(* sync_data, fcntl) are the environment; each is an operator giving the   *)
(* set of outcomes the primitive can produce in the current file state.    *)
(***************************************************************************)
EXTENDS Integers, Sequences, FiniteSets, TLC

\* ---------------------------------------------------------------- bounds
NumHandles == 3      \* independent handles to the same file (Spec)
IoHandles  == 1      \* struct FileBackend { file: File }: the one handle
                     \* of the one backend FileSpec explores the file with
MaxFileLen == 2      \* largest file extent explored (FileSpec)
MaxClose   == 2      \* close calls explored per backend
NumThreads == 2      \* threads that call one backend at once (ThreadSpec)
RangeLen   == 2      \* bytes of the file each thread has to itself

Min(a, b) == IF a < b THEN a ELSE b
Max(a, b) == IF a < b THEN b ELSE a

Handles   == 1..Max(NumHandles, IoHandles)
Threads   == 1..NumThreads
Byte      == 0..1
Platforms == {"unix", "macos", "windows"}

VARIABLES
    platform,      \* cfg target the code was built for
    lockSupport,   \* whether File::try_lock is supported for this file
    content,       \* the file's bytes, Len(content) is its extent
    holders,       \* handles that hold the advisory exclusive lock
    backend,       \* per handle: the FileBackend built over it, if any
    closeCalls,    \* per handle: close calls made on its backend
    unlockCalls,   \* per handle: File::unlock calls its backend issued
    call,          \* the read / write retry loop in progress (windows)
    tcall,         \* per thread: the retry loop it has in progress (windows)
    cursor,        \* the file cursor (file pointer) of the handle self.file
    lastOp         \* observer: the operation that completed last and its
                   \* result (len0: the file's extent when it was called);
                   \* while a retry loop runs it keeps only a successful
                   \* write of the very range being read back

vars == <<platform, lockSupport, content, holders, backend, closeCalls,
          unlockCalls, call, tcall, cursor, lastOp>>

\* all byte strings of length 0..n
BytesUpTo(n) == UNION {[1..k -> Byte] : k \in 0..n}

\* vec![0; n]
Zeros(n) == [i \in 1..n |-> 0]

Idle == [op |-> "idle"]

\* struct FileBackend { lock_supported, file }
Unopened  == [state |-> "Unopened", lock_supported |-> FALSE]
Built(ls) == [state |-> "Open", lock_supported |-> ls]

\* ------------------------------------------------ file-system primitives

\* bytes [o, o+n) of the file
FileRange(c, o, n) == [i \in 1..n |-> c[o + i]]

\* positional write of d at o: the range is overwritten, the file grows to
\* o+|d| when that is past its end and a gap up to o reads as zero; an
\* empty d transfers nothing
WriteBytes(c, o, d) ==
    IF Len(d) = 0 THEN c
    ELSE [i \in 1..Max(Len(c), o + Len(d)) |->
            IF i > o /\ i <= o + Len(d) THEN d[i - o]
            ELSE IF i <= Len(c) THEN c[i] ELSE 0]

\* set_len that extends but never truncates
FileSetLen_GrowOnly(c, L) ==
    [i \in 1..Max(L, Len(c)) |-> IF i <= Len(c) THEN c[i] ELSE 0]

\* File::set_len: truncate, or extend with zero bytes
FileSetLen(c, L) == [i \in 1..L |-> IF i <= Len(c) THEN c[i] ELSE 0]

\* File::try_lock on handle h
TryLockResults(h) ==
    IF ~lockSupport THEN {"Unsupported"}
    ELSE IF holders \ {h} # {} THEN {"WouldBlock"}
    ELSE {"Ok", "Error"}

\* File::unlock on handle h.  A handle that holds no lock: flock(LOCK_UN)
\* succeeds, UnlockFile fails with ERROR_NOT_LOCKED.
UnlockResults(h) ==
    IF h \in holders THEN {"Ok", "Error"}
    ELSE IF platform = "windows" THEN {"Error"} ELSE {"Ok"}

\* FileExt::seek_read into a buffer with r bytes of room: the number of
\* bytes transferred (0 exactly at end of file), or an error
SeekReadResults(c, offset, r) ==
    {[ok |-> TRUE, n |-> k] :
        k \in IF offset >= Len(c) THEN {0} ELSE 1..Min(r, Len(c) - offset)}
    \cup {[ok |-> FALSE, n |-> 0]}

\* FileExt::seek_write of r remaining bytes: the number written, or an error
SeekWriteResults(r) ==
    {[ok |-> TRUE, n |-> k] : k \in 0..r} \cup {[ok |-> FALSE, n |-> 0]}

\* FileExt::seek_write of the bytes d at o: the files it can leave.  It is a
\* positional write, but when o is past the end of the file the bytes between
\* the old end and o are left uninitialized: they can hold any value
SeekWriteFiles(c, o, d) ==
    IF Len(d) = 0 THEN {c}
    ELSE {[i \in 1..Max(Len(c), o + Len(d)) |->
             IF i > o /\ i <= o + Len(d) THEN d[i - o]
             ELSE IF i <= Len(c) THEN c[i] ELSE g[i]] :
          g \in [(Len(c) + 1)..o -> Byte]}

\* FileExt::seek_read and seek_write take the position as an argument, yet
\* "the current file cursor is affected by this function, it is set to the
\* end of the read" (of the write): the cursor after a call at offset that
\* moved n bytes
SeekCursor(offset, n) == offset + n

\* File::read_exact_at: fills the whole buffer or fails; an empty buffer
\* needs no system call
ReadExactAtResults(c, o, n) ==
    IF n = 0 THEN {[res |-> "Ok", buf |-> <<>>]}
    ELSE {IF o + n <= Len(c)
          THEN [res |-> "Ok", buf |-> FileRange(c, o, n)]
          ELSE [res |-> "Err(UnexpectedEof)", buf |-> <<>>],
          [res |-> "Err(Os)", buf |-> <<>>]}

\* File::write_all_at: writes all of d, or fails after a proper prefix of d
\* has reached the file
WriteAllAtResults(c, o, d) ==
    {[res |-> "Ok", content |-> WriteBytes(c, o, d)]}
    \cup {[res |-> "Err(Os)", content |-> WriteBytes(c, o, SubSeq(d, 1, k))] :
            k \in 0..(Len(d) - 1)}

\* ------------------------------------------------------------ FileBackend

\* new with the WouldBlock arm lost: a contended lock builds the backend
NewOutcome_IgnoresContention(r) ==
    CASE r = "Ok"          -> [res |-> "Ok", built |-> TRUE, lock_supported |-> TRUE]
      [] r = "WouldBlock"  -> [res |-> "Ok", built |-> TRUE, lock_supported |-> TRUE]
      [] r = "Unsupported" -> [res |-> "Ok", built |-> TRUE, lock_supported |-> FALSE]
      [] r = "Error"       -> [res |-> "Err(Os)", built |-> FALSE,
                               lock_supported |-> FALSE]

\* new recording lock_supported: true on the Unsupported arm as well
NewOutcome_UnsupportedAsLocked(r) ==
    CASE r = "Ok"          -> [res |-> "Ok", built |-> TRUE, lock_supported |-> TRUE]
      [] r = "WouldBlock"  -> [res |-> "Err(DatabaseAlreadyOpen)", built |-> FALSE,
                               lock_supported |-> FALSE]
      [] r = "Unsupported" -> [res |-> "Ok", built |-> TRUE, lock_supported |-> TRUE]
      [] r = "Error"       -> [res |-> "Err(Os)", built |-> FALSE,
                               lock_supported |-> FALSE]

\* new building an unlocked backend when try_lock fails with another error
NewOutcome_ErrorAsUnlocked(r) ==
    CASE r = "Ok"          -> [res |-> "Ok", built |-> TRUE, lock_supported |-> TRUE]
      [] r = "WouldBlock"  -> [res |-> "Err(DatabaseAlreadyOpen)", built |-> FALSE,
                               lock_supported |-> FALSE]
      [] r = "Unsupported" -> [res |-> "Ok", built |-> TRUE, lock_supported |-> FALSE]
      [] r = "Error"       -> [res |-> "Ok", built |-> TRUE,
                               lock_supported |-> FALSE]

\* FileBackend::new, the match on file.try_lock()
NewOutcome(r) ==
    CASE r = "Ok"          -> [res |-> "Ok", built |-> TRUE, lock_supported |-> TRUE]
      [] r = "WouldBlock"  -> [res |-> "Err(DatabaseAlreadyOpen)", built |-> FALSE,
                               lock_supported |-> FALSE]
      [] r = "Unsupported" -> [res |-> "Ok", built |-> TRUE, lock_supported |-> FALSE]
      [] r = "Error"       -> [res |-> "Err(Os)", built |-> FALSE,
                               lock_supported |-> FALSE]

\* close that never reaches self.file.unlock()
CloseUnlocks_Never(b) == FALSE

\* close that calls self.file.unlock() without testing lock_supported
CloseUnlocks_Always(b) == TRUE

\* FileBackend::close, the test that guards self.file.unlock()
CloseUnlocks(b) == b.lock_supported

\* close that drops the file handle: the backend is gone after it
Closed_DropsFile(b) == Unopened

\* FileBackend::close takes &self and assigns nothing: the backend, its file
\* handle included, is after close what it was before
Closed(b) == b

\* unlock that releases the lock of the file whichever handle holds it
Released_Any(hs, h) == {}

\* a successful self.file.unlock() on handle h: the lock h holds is released,
\* a lock held through another handle stays
Released(hs, h) == hs \ {h}

\* windows read: the state on entry to the loop (o records the call's
\* offset argument, last the count seek_read reported last, calls the
\* seek_read calls made: len+1 once one of them has transferred nothing)
ReadEntry(o, n) ==
    [op |-> "read", o |-> o, len |-> n, offset |-> o, data_offset |-> 0,
     buffer |-> Zeros(n), last |-> -1, calls |-> 0]

\* the read loop without offset += read: every call reads at the start
ReadIter_KeepsOffset(cl, c, r) ==
    [cl EXCEPT !.buffer = [i \in 1..Len(cl.buffer) |->
                              IF i > cl.data_offset /\ i <= cl.data_offset + r
                              THEN c[cl.offset + (i - cl.data_offset)]
                              ELSE cl.buffer[i]],
               !.data_offset = cl.data_offset + r,
               !.last = r]

\* the read loop passing &mut buffer[..] to every call: each call fills the
\* buffer from its start
ReadIter_OverwritesStart(cl, c, r) ==
    [cl EXCEPT !.buffer = [i \in 1..Len(cl.buffer) |->
                              IF i <= r THEN c[cl.offset + i]
                              ELSE cl.buffer[i]],
               !.offset = cl.offset + r,
               !.data_offset = cl.data_offset + r,
               !.last = r]

\* windows read: one iteration of the loop in which seek_read transferred r
\* bytes of file c into buffer[data_offset..]
ReadIter(cl, c, r) ==
    [cl EXCEPT !.buffer = [i \in 1..Len(cl.buffer) |->
                              IF i > cl.data_offset /\ i <= cl.data_offset + r
                              THEN c[cl.offset + (i - cl.data_offset)]
                              ELSE cl.buffer[i]],
               !.offset = cl.offset + r,
               !.data_offset = cl.data_offset + r,
               !.last = r]

\* windows write: the state on entry to the loop (o, c0 and len0 record the
\* call's offset argument and the file and its extent at entry; last and
\* calls as for read)
WriteEntry(o, d, c) ==
    [op |-> "write", o |-> o, c0 |-> c, len0 |-> Len(c), data |-> d,
     offset |-> o, data_offset |-> 0, last |-> -1, calls |-> 0]

\* windows write: the bytes one seek_write call that reports w bytes moved,
\* &data[data_offset..] cut to w
WriteChunk(cl, w) == SubSeq(cl.data, cl.data_offset + 1, cl.data_offset + w)

\* the write loop without offset += written: every call writes at the start
WriteIter_KeepsOffset(cl, w) ==
    [cl EXCEPT !.data_offset = cl.data_offset + w,
               !.last = w]

\* the write loop advancing the file offset one byte too far
WriteIter_SkipsByte(cl, w) ==
    [cl EXCEPT !.offset = cl.offset + w + 1,
               !.data_offset = cl.data_offset + w,
               !.last = w]

\* windows write: the loop variables after seek_write reported w bytes
WriteIter(cl, w) ==
    [cl EXCEPT !.offset = cl.offset + w,
               !.data_offset = cl.data_offset + w,
               !.last = w]

\* a failed write that undoes the calls that went before it
AfterFailedWrite_RolledBack(c, cl) == cl.c0

\* windows write: seek_write's error leaves the function through `?`; the
\* file c stays as the calls before it left it
AfterFailedWrite(c, cl) == c

\* sync_data without the macos variant: always the full sync
SyncPrimitive_IgnoresEventual(p, eventual) == "full"

\* sync_data: which primitive the build calls
SyncPrimitive(p, eventual) ==
    IF p = "macos" /\ eventual THEN "barrier" ELSE "full"

\* a sync that loses the bytes it was to make durable
Synced_Truncates(c) == <<>>

\* fcntl(F_BARRIERFSYNC) and File::sync_data move written bytes to storage:
\* the file as it is read is what it was
Synced(c) == c

\* sync_data: the result made of the primitive's return code (fcntl and
\* fdatasync return -1 on failure)
SyncResult(code) == IF code = -1 THEN "Err(Os)" ELSE "Ok"

IsOpen(h) == backend[h].state = "Open"

\* the I/O methods use self.file only, and every handle names the same
\* file: a call on any constructed backend (closed or not) acts alike
SomeBackend == \E h \in Handles : IsOpen(h)

NoOp == [op |-> "none"]

\* the loop record cl with one more primitive call counted, which moved k
\* bytes; the count is cap from the first call on that moved none
Counted(cl, k, cap) ==
    [cl EXCEPT !.calls = IF k = 0 THEN cap ELSE Min(cl.calls + 1, cap)]

\* what lastOp keeps of the previous result while the loop cl runs
Observed(prev, cl) ==
    IF /\ cl.op = "read" /\ prev.op = "write"
       /\ prev.res = "Ok" /\ prev.o = cl.o /\ Len(prev.data) = cl.len
    THEN prev ELSE NoOp

Init ==
    /\ platform \in Platforms
    /\ lockSupport \in BOOLEAN
    /\ content = <<>>
    /\ holders = {}
    /\ backend = [h \in Handles |-> Unopened]
    /\ closeCalls = [h \in Handles |-> 0]
    /\ unlockCalls = [h \in Handles |-> 0]
    /\ call = Idle
    /\ tcall = [t \in Threads |-> Idle]
    /\ cursor = 0
    /\ lastOp = NoOp

New(h) ==
    /\ call = Idle
    /\ backend[h].state = "Unopened"
    /\ \E r \in TryLockResults(h) :
          LET out == NewOutcome(r) IN
          /\ holders' = IF r = "Ok" THEN holders \cup {h} ELSE holders
          /\ backend' = IF out.built
                        THEN [backend EXCEPT ![h] = Built(out.lock_supported)]
                        ELSE backend
          /\ lastOp' = [op |-> "new", h |-> h, lock |-> r, res |-> out.res]
    /\ UNCHANGED <<platform, lockSupport, content, closeCalls, unlockCalls,
                   call, tcall, cursor>>

Close(h) ==
    /\ call = Idle
    /\ IsOpen(h)
    /\ closeCalls[h] < MaxClose
    /\ closeCalls' = [closeCalls EXCEPT ![h] = @ + 1]
    /\ backend' = [backend EXCEPT ![h] = Closed(backend[h])]
    /\ IF CloseUnlocks(backend[h])
       THEN \E u \in UnlockResults(h) :
               /\ unlockCalls' = [unlockCalls EXCEPT ![h] = @ + 1]
               /\ holders' = IF u = "Ok" THEN Released(holders, h) ELSE holders
               /\ lastOp' = [op |-> "close", h |-> h, held |-> h \in holders,
                             res |-> IF u = "Ok" THEN "Ok" ELSE "Err(Os)"]
       ELSE /\ UNCHANGED <<unlockCalls, holders>>
            /\ lastOp' = [op |-> "close", h |-> h, held |-> h \in holders,
                          res |-> "Ok"]
    /\ UNCHANGED <<platform, lockSupport, content, call, tcall, cursor>>

FileLen ==
    /\ call = Idle
    /\ SomeBackend
    /\ \E ok \in BOOLEAN :
          lastOp' = IF ok THEN [op |-> "len", res |-> "Ok", val |-> Len(content)]
                    ELSE [op |-> "len", res |-> "Err(Os)", val |-> 0]
    /\ UNCHANGED <<platform, lockSupport, content, holders, backend,
                   closeCalls, unlockCalls, call, tcall, cursor>>

SetLen(L) ==
    /\ call = Idle
    /\ SomeBackend
    /\ \E ok \in BOOLEAN :
          /\ content' = IF ok THEN FileSetLen(content, L) ELSE content
          /\ lastOp' = [op |-> "set_len", len |-> L, len0 |-> Len(content),
                        res |-> IF ok THEN "Ok" ELSE "Err(Os)"]
    /\ UNCHANGED <<platform, lockSupport, holders, backend, closeCalls,
                   unlockCalls, call, tcall, cursor>>

SyncData(eventual) ==
    /\ call = Idle
    /\ SomeBackend
    /\ content' = Synced(content)
    /\ \E code \in {0, -1} :
          lastOp' = [op |-> "sync_data", eventual |-> eventual,
                     did |-> SyncPrimitive(platform, eventual),
                     code |-> code, res |-> SyncResult(code)]
    /\ UNCHANGED <<platform, lockSupport, holders, backend, closeCalls,
                   unlockCalls, call, tcall, cursor>>

\* read on cfg(any(unix, target_os = "wasi"))
Read(o, n) ==
    /\ call = Idle
    /\ SomeBackend
    /\ platform # "windows"
    /\ \E out \in ReadExactAtResults(content, o, n) :
          lastOp' = [op |-> "read", o |-> o, len |-> n, res |-> out.res,
                     buf |-> out.buf]
    /\ UNCHANGED <<platform, lockSupport, content, holders, backend,
                   closeCalls, unlockCalls, call, tcall, cursor>>

\* write on cfg(any(unix, target_os = "wasi"))
Write(o, d) ==
    /\ call = Idle
    /\ SomeBackend
    /\ platform # "windows"
    /\ \E out \in WriteAllAtResults(content, o, d) :
          /\ content' = out.content
          /\ lastOp' = [op |-> "write", o |-> o, data |-> d,
                        len0 |-> Len(content), res |-> out.res]
    /\ UNCHANGED <<platform, lockSupport, holders, backend, closeCalls,
                   unlockCalls, call, tcall, cursor>>

\* read on cfg(windows): entry; a zero-length request skips the loop
WinReadCall(o, n) ==
    /\ call = Idle
    /\ SomeBackend
    /\ platform = "windows"
    /\ IF 0 < n
       THEN /\ call' = ReadEntry(o, n)
            /\ lastOp' = Observed(lastOp, call')
       ELSE /\ call' = Idle
            /\ lastOp' = [op |-> "read", o |-> o, len |-> n, res |-> "Ok",
                          buf |-> Zeros(n)]
    /\ UNCHANGED <<platform, lockSupport, content, holders, backend,
                   closeCalls, unlockCalls, tcall, cursor>>

\* read on cfg(windows): one iteration, and the return when the loop ends
WinReadLoop ==
    /\ call.op = "read"
    /\ call.data_offset < Len(call.buffer)
    /\ \E r \in SeekReadResults(content, call.offset,
                                Len(call.buffer) - call.data_offset) :
          IF ~r.ok
          THEN /\ call' = Idle
               /\ UNCHANGED cursor
               /\ lastOp' = [op |-> "read", o |-> call.o, len |-> call.len,
                             res |-> "Err(Os)", buf |-> <<>>]
          ELSE LET nx == Counted(ReadIter(call, content, r.n), r.n,
                                 call.len + 1) IN
               /\ cursor' = SeekCursor(call.offset, r.n)
               /\ IF nx.data_offset < Len(nx.buffer)
                  THEN call' = nx /\ UNCHANGED lastOp
                  ELSE /\ call' = Idle
                       /\ lastOp' = [op |-> "read", o |-> call.o,
                                     len |-> call.len, res |-> "Ok",
                                     buf |-> nx.buffer]
    /\ UNCHANGED <<platform, lockSupport, content, holders, backend,
                   closeCalls, unlockCalls, tcall>>

\* write on cfg(windows): entry; empty data skips the loop
WinWriteCall(o, d) ==
    /\ call = Idle
    /\ SomeBackend
    /\ platform = "windows"
    /\ IF 0 < Len(d)
       THEN /\ call' = WriteEntry(o, d, content)
            /\ lastOp' = Observed(lastOp, call')
       ELSE /\ call' = Idle
            /\ lastOp' = [op |-> "write", o |-> o, data |-> d,
                          len0 |-> Len(content), res |-> "Ok"]
    /\ UNCHANGED <<platform, lockSupport, content, holders, backend,
                   closeCalls, unlockCalls, tcall, cursor>>

\* write on cfg(windows): one iteration, and the return when the loop ends
WinWriteLoop ==
    /\ call.op = "write"
    /\ call.data_offset < Len(call.data)
    /\ \E w \in SeekWriteResults(Len(call.data) - call.data_offset) :
          IF ~w.ok
          THEN /\ call' = Idle
               /\ content' = AfterFailedWrite(content, call)
               /\ UNCHANGED cursor
               /\ lastOp' = [op |-> "write", o |-> call.o, data |-> call.data,
                             len0 |-> call.len0, res |-> "Err(Os)"]
          ELSE LET nx == Counted(WriteIter(call, w.n), w.n,
                                 Len(call.data) + 1) IN
               /\ content' \in SeekWriteFiles(content, call.offset,
                                              WriteChunk(call, w.n))
               /\ cursor' = SeekCursor(call.offset, w.n)
               /\ IF nx.data_offset < Len(nx.data)
                  THEN call' = nx /\ UNCHANGED lastOp
                  ELSE /\ call' = Idle
                       /\ lastOp' = [op |-> "write", o |-> call.o,
                                     data |-> call.data, len0 |-> call.len0,
                                     res |-> "Ok"]
    /\ UNCHANGED <<platform, lockSupport, holders, backend, closeCalls,
                   unlockCalls, tcall>>

\* FileSpec explores the file: the requests reach every offset of a file of
\* up to MaxFileLen bytes and one byte past its end, over IoHandles handles
Offsets    == 0..MaxFileLen
ReadLens   == 0..MaxFileLen
WriteDatas == BytesUpTo(MaxFileLen)

FileNext ==
    \/ \E h \in 1..IoHandles : New(h)
    \/ \E h \in 1..IoHandles : Close(h)
    \/ FileLen
    \/ \E L \in 0..MaxFileLen : SetLen(L)
    \/ \E e \in BOOLEAN : SyncData(e)
    \/ \E o \in Offsets, n \in ReadLens :
          o + n <= MaxFileLen + 1 /\ Read(o, n)
    \/ \E o \in Offsets, d \in WriteDatas :
          o + Len(d) <= MaxFileLen /\ Write(o, d)
    \/ \E o \in Offsets, n \in ReadLens :
          o + n <= MaxFileLen + 1 /\ WinReadCall(o, n)
    \/ WinReadLoop
    \/ \E o \in Offsets, d \in WriteDatas :
          o + Len(d) <= MaxFileLen /\ WinWriteCall(o, d)
    \/ WinWriteLoop

FileSpec == Init /\ [][FileNext]_vars

\* Spec explores the lock: every handle opens and closes, over a file of at
\* most one byte
Next ==
    \/ \E h \in Handles : New(h)
    \/ \E h \in Handles : Close(h)
    \/ FileLen
    \/ \E L \in 0..1 : SetLen(L)
    \/ \E e \in BOOLEAN : SyncData(e)
    \/ \E o \in 0..1, n \in 0..1 : Read(o, n)
    \/ \E o \in 0..1, d \in BytesUpTo(1) : o + Len(d) <= 1 /\ Write(o, d)
    \/ \E o \in 0..1, n \in 0..1 : WinReadCall(o, n)
    \/ WinReadLoop
    \/ \E o \in 0..1, d \in BytesUpTo(1) : o + Len(d) <= 1 /\ WinWriteCall(o, d)
    \/ WinWriteLoop

Spec == Init /\ [][Next]_vars

\* ------------------------------------------------ threads on one backend
\* FileBackend is shared by reference (&self) between threads: read and
\* write calls of several threads run at once, the steps of their retry
\* loops interleaved.  Thread t calls on its own bytes of the file only.

FileBytes == NumThreads * RangeLen

\* the requests <<offset, length>> of thread t: non-empty ranges within
\* bytes [(t-1)*RangeLen, t*RangeLen)
ThreadRequests(t) ==
    {rq \in (((t - 1) * RangeLen)..(t * RangeLen - 1)) \X (1..RangeLen) :
        rq[1] + rq[2] <= t * RangeLen}

\* one backend, built with the lock held, over a file that set_len brought
\* to FileBytes bytes
ThreadInit ==
    /\ platform \in Platforms
    /\ lockSupport = TRUE
    /\ content = FileSetLen(<<>>, FileBytes)
    /\ holders = IF lockSupport THEN {1} ELSE {}
    /\ backend = [h \in Handles |->
                    IF h = 1 THEN Built(lockSupport) ELSE Unopened]
    /\ closeCalls = [h \in Handles |-> 0]
    /\ unlockCalls = [h \in Handles |-> 0]
    /\ call = Idle
    /\ tcall = [t \in Threads |-> Idle]
    /\ cursor = 0
    /\ lastOp = NoOp

\* read on cfg(any(unix, target_os = "wasi")), called by thread t
ThreadRead(t, o, n) ==
    /\ platform # "windows"
    /\ \E out \in ReadExactAtResults(content, o, n) :
          lastOp' = [op |-> "read", t |-> t, o |-> o, len |-> n,
                     res |-> out.res, buf |-> out.buf]
    /\ UNCHANGED <<platform, lockSupport, content, holders, backend,
                   closeCalls, unlockCalls, call, tcall, cursor>>

\* write on cfg(any(unix, target_os = "wasi")), called by thread t
ThreadWrite(t, o, d) ==
    /\ platform # "windows"
    /\ \E out \in WriteAllAtResults(content, o, d) :
          /\ content' = out.content
          /\ lastOp' = [op |-> "write", t |-> t, o |-> o, data |-> d,
                        len0 |-> Len(content), res |-> out.res]
    /\ UNCHANGED <<platform, lockSupport, holders, backend, closeCalls,
                   unlockCalls, call, tcall, cursor>>

\* read on cfg(windows), called by thread t: entry
ThreadWinReadCall(t, o, n) ==
    /\ platform = "windows"
    /\ tcall[t] = Idle
    /\ tcall' = [tcall EXCEPT ![t] = ReadEntry(o, n)]
    /\ lastOp' = NoOp
    /\ UNCHANGED <<platform, lockSupport, content, holders, backend,
                   closeCalls, unlockCalls, call, cursor>>

\* read on cfg(windows), thread t: one iteration, and the return
ThreadWinReadLoop(t) ==
    /\ tcall[t].op = "read"
    /\ \E r \in SeekReadResults(content, tcall[t].offset,
                                Len(tcall[t].buffer) - tcall[t].data_offset) :
          IF ~r.ok
          THEN /\ tcall' = [tcall EXCEPT ![t] = Idle]
               /\ UNCHANGED cursor
               /\ lastOp' = [op |-> "read", t |-> t, o |-> tcall[t].o,
                             len |-> tcall[t].len, res |-> "Err(Os)",
                             buf |-> <<>>]
          ELSE LET nx == Counted(ReadIter(tcall[t], content, r.n), r.n,
                                 tcall[t].len + 1) IN
               /\ cursor' = SeekCursor(tcall[t].offset, r.n)
               /\ IF nx.data_offset < Len(nx.buffer)
                  THEN /\ tcall' = [tcall EXCEPT ![t] = nx]
                       /\ lastOp' = NoOp
                  ELSE /\ tcall' = [tcall EXCEPT ![t] = Idle]
                       /\ lastOp' = [op |-> "read", t |-> t, o |-> tcall[t].o,
                                     len |-> tcall[t].len, res |-> "Ok",
                                     buf |-> nx.buffer]
    /\ UNCHANGED <<platform, lockSupport, content, holders, backend,
                   closeCalls, unlockCalls, call>>

\* write on cfg(windows), called by thread t: entry
ThreadWinWriteCall(t, o, d) ==
    /\ platform = "windows"
    /\ tcall[t] = Idle
    /\ tcall' = [tcall EXCEPT ![t] = WriteEntry(o, d, content)]
    /\ lastOp' = NoOp
    /\ UNCHANGED <<platform, lockSupport, content, holders, backend,
                   closeCalls, unlockCalls, call, cursor>>

\* write on cfg(windows), thread t: one iteration, and the return
ThreadWinWriteLoop(t) ==
    /\ tcall[t].op = "write"
    /\ \E w \in SeekWriteResults(Len(tcall[t].data) - tcall[t].data_offset) :
          IF ~w.ok
          THEN /\ tcall' = [tcall EXCEPT ![t] = Idle]
               /\ content' = AfterFailedWrite(content, tcall[t])
               /\ UNCHANGED cursor
               /\ lastOp' = [op |-> "write", t |-> t, o |-> tcall[t].o,
                             data |-> tcall[t].data, len0 |-> tcall[t].len0,
                             res |-> "Err(Os)"]
          ELSE LET nx == Counted(WriteIter(tcall[t], w.n), w.n,
                                 Len(tcall[t].data) + 1) IN
               /\ content' \in SeekWriteFiles(content, tcall[t].offset,
                                              WriteChunk(tcall[t], w.n))
               /\ cursor' = SeekCursor(tcall[t].offset, w.n)
               /\ IF nx.data_offset < Len(nx.data)
                  THEN /\ tcall' = [tcall EXCEPT ![t] = nx]
                       /\ lastOp' = NoOp
                  ELSE /\ tcall' = [tcall EXCEPT ![t] = Idle]
                       /\ lastOp' = [op |-> "write", t |-> t,
                                     o |-> tcall[t].o, data |-> tcall[t].data,
                                     len0 |-> tcall[t].len0, res |-> "Ok"]
    /\ UNCHANGED <<platform, lockSupport, holders, backend, closeCalls,
                   unlockCalls, call>>

ThreadNext ==
    \E t \in Threads :
       \/ \E rq \in ThreadRequests(t) : ThreadRead(t, rq[1], rq[2])
       \/ \E rq \in ThreadRequests(t) : \E d \in [1..rq[2] -> Byte] :
             ThreadWrite(t, rq[1], d)
       \/ \E rq \in ThreadRequests(t) : ThreadWinReadCall(t, rq[1], rq[2])
       \/ ThreadWinReadLoop(t)
       \/ \E rq \in ThreadRequests(t) : \E d \in [1..rq[2] -> Byte] :
             ThreadWinWriteCall(t, rq[1], d)
       \/ ThreadWinWriteLoop(t)

ThreadSpec == ThreadInit /\ [][ThreadNext]_vars

TypeOK ==
    /\ platform \in Platforms
    /\ lockSupport \in BOOLEAN
    /\ content \in BytesUpTo(MaxFileLen)
    /\ holders \subseteq Handles
    /\ \A h \in Handles : backend[h] \in {Unopened, Built(TRUE), Built(FALSE)}
    /\ \A h \in Handles : closeCalls[h] \in 0..MaxClose /\ unlockCalls[h] \in 0..MaxClose
    /\ cursor \in 0..(MaxFileLen + 1)


\* ------------------------------------------------------------ properties

\* a backend built with lock_supported = true on which close was not called
LockedLive(h) ==
    IsOpen(h) /\ backend[h].lock_supported /\ closeCalls[h] = 0

\* C1: with lock support, at most one backend built with lock_supported =
\* true and not yet closed exists at any time, and it holds the lock; a new
\* made while such a backend exists returns DatabaseAlreadyOpen, builds no
\* backend and leaves that backend's lock held.
C1_ExclusiveLock ==
    lockSupport =>
        /\ Cardinality({h \in Handles : LockedLive(h)}) <= 1
        /\ \A h \in Handles : LockedLive(h) => holders = {h}
        /\ (/\ lastOp.op = "new"
            /\ \E g \in Handles \ {lastOp.h} : LockedLive(g))
           => /\ lastOp.res = "Err(DatabaseAlreadyOpen)"
              /\ backend[lastOp.h] = Unopened

\* C1 witness: a second new has just failed while the first backend is open
\* and holds the lock
C1_Witness ==
    /\ lockSupport
    /\ lastOp.op = "new"
    /\ lastOp.res = "Err(DatabaseAlreadyOpen)"
    /\ backend[lastOp.h] = Unopened
    /\ \E g \in Handles \ {lastOp.h} : LockedLive(g) /\ g \in holders

\* C2: once the backend that held the lock has closed with Ok the lock is
\* free, and the next new, on another handle, does not find the database
\* already open: unless try_lock itself reports an OS error it builds a
\* backend with lock_supported = true that holds the lock.
C2_CloseFreesLock ==
    [][(lastOp.op = "close" /\ lastOp.res = "Ok" /\ lastOp.held)
        => /\ holders = {}
           /\ lastOp'.op = "new"
              => /\ lastOp'.res \in {"Ok", "Err(Os)"}
                 /\ lastOp'.res = "Ok"
                    => /\ backend'[lastOp'.h] = Built(TRUE)
                       /\ holders' = {lastOp'.h}]_vars

\* C2 witness: a backend that held the lock is closed and released it, and a
\* later new on another handle has succeeded and holds the lock
C2_Witness ==
    /\ lastOp.op = "new"
    /\ lastOp.res = "Ok"
    /\ backend[lastOp.h] = Built(TRUE)
    /\ holders = {lastOp.h}
    /\ \E g \in Handles \ {lastOp.h} :
          /\ backend[g] = Built(TRUE)
          /\ closeCalls[g] = 1
          /\ unlockCalls[g] = 1


\* C3: a read of the range a successful write has just written returns Ok
\* with exactly the written bytes, on the single-call and on the retry-loop
\* path (the only other outcome is an OS error of the read primitive).
C3_WriteReadRoundTrip ==
    [][(/\ lastOp.op = "write" /\ lastOp.res = "Ok"
        /\ call' = Idle /\ lastOp'.op = "read"
        /\ lastOp'.o = lastOp.o /\ lastOp'.len = Len(lastOp.data)
        /\ lastOp.o + Len(lastOp.data) <= Len(content))
       => /\ lastOp'.res \in {"Ok", "Err(Os)"}
          /\ lastOp'.res = "Ok" => lastOp'.buf = lastOp.data]_vars

\* C3 witness: on the retry-loop path a two-byte write has succeeded and the
\* read of its range has taken a short first step that returned its first
\* byte
C3_Witness ==
    /\ lastOp.op = "write" /\ lastOp.res = "Ok"
    /\ lastOp.data = <<1, 0>>
    /\ call.op = "read" /\ call.o = lastOp.o /\ call.len = 2
    /\ call.data_offset = 1
    /\ call.buffer = <<1, 0>>
    /\ call.offset = call.o + 1

\* C4: a read of len > 0 bytes whose span reaches past the end of the file
\* returns an I/O error on every path: it never returns Ok, and once the read
\* primitive has reported end of file (zero bytes) the call has returned.
C4_ReadPastEofFails ==
    /\ (/\ lastOp.op = "read" /\ lastOp.len > 0
        /\ lastOp.o + lastOp.len > Len(content))
       => lastOp.res # "Ok"
    /\ ~(call.op = "read" /\ call.last = 0)

\* the step belongs to a write call (single call, or an iteration of the loop)
WriteStep ==
    \/ call.op = "write"
    \/ call = Idle /\ call' = Idle /\ lastOp'.op = "write"

\* the offset and data arguments of the write call the step belongs to
WriteOffset == IF call.op = "write" THEN call.o ELSE lastOp'.o
WriteData   == IF call.op = "write" THEN call.data ELSE lastOp'.data

\* the step ends a write call with result Ok
WriteReturnsOk ==
    WriteStep /\ call' = Idle /\ lastOp'.op = "write" /\ lastOp'.res = "Ok"

\* C6: a write changes no byte of the file outside [offset, offset+|data|)
\* (a byte it brings into being below offset is zero on the single-call
\* path; seek_write leaves it uninitialized), and when it returns Ok every
\* byte of data is in the file at that range.
C6_WriteCompleteAndFramed ==
    [][WriteStep =>
        /\ Len(content') >= Len(content)
        /\ \A i \in 1..Len(content') :
              (i <= WriteOffset \/ i > WriteOffset + Len(WriteData))
              => /\ i <= Len(content) => content'[i] = content[i]
                 /\ (i > Len(content) /\ platform # "windows")
                    => content'[i] = 0
        /\ WriteReturnsOk /\ Len(WriteData) > 0
           => /\ Len(content') >= WriteOffset + Len(WriteData)
              /\ FileRange(content', WriteOffset, Len(WriteData)) = WriteData]_vars

\* C6 witness: a write of one byte at offset 1 has returned Ok over a file
\* whose byte 0 was set and is still set
C6_Witness ==
    /\ lastOp.op = "write" /\ lastOp.res = "Ok"
    /\ lastOp.o = 1 /\ lastOp.data = <<1>>
    /\ lastOp.len0 = 2
    /\ content = <<1, 1>>

\* C7: set_len(L) returning Ok leaves the file exactly L bytes long, with the
\* bytes below min(old size, L) unchanged and the bytes from the old size up
\* to L zero, and a len() that follows it returns L (or an OS error).
C7_SetLenExact ==
    [][/\ (call = Idle /\ call' = Idle /\ lastOp'.op = "set_len"
           /\ lastOp'.res = "Ok")
          => /\ Len(content') = lastOp'.len
             /\ \A i \in 1..Len(content') :
                   content'[i] = IF i <= Len(content) THEN content[i] ELSE 0
       /\ (lastOp.op = "set_len" /\ lastOp.res = "Ok" /\ lastOp'.op = "len"
           /\ lastOp'.res = "Ok")
          => lastOp'.val = lastOp.len]_vars

\* C7 witness: set_len has grown a one-byte file to two bytes; the old byte is
\* kept and the new one is zero
C7_Witness ==
    /\ lastOp.op = "set_len" /\ lastOp.res = "Ok"
    /\ lastOp.len0 = 1 /\ lastOp.len = 2
    /\ content = <<1, 0>>

\* C8 as stated: only set_len changes the extent of the file.
C8_OnlySetLenChangesExtent ==
    [][Len(content') # Len(content)
       => (call = Idle /\ call' = Idle /\ lastOp'.op = "set_len")]_vars

\* C8 amended: the extent changes only in set_len and in a write that
\* reaches past the end of the file, which only grows it and to at most
\* offset+|data| (reached when the write returns Ok); len, read, sync_data,
\* close, new and a write within the file leave it unchanged.
C8_ExtentChangesOnlyBySetLenOrWritePastEof ==
    [][/\ Len(content') # Len(content)
          => \/ call = Idle /\ call' = Idle /\ lastOp'.op = "set_len"
             \/ /\ WriteStep
                /\ Len(content) < WriteOffset + Len(WriteData)
                /\ Len(content) < Len(content')
                /\ Len(content') <= WriteOffset + Len(WriteData)
       /\ (WriteReturnsOk /\ Len(WriteData) > 0)
          => Len(content') = Max(lastOp'.len0, WriteOffset + Len(WriteData))]_vars

\* C8 witness: a write that returned Ok has grown a one-byte file to two bytes
C8_Witness ==
    /\ lastOp.op = "write" /\ lastOp.res = "Ok"
    /\ lastOp.len0 = 1
    /\ lastOp.o + Len(lastOp.data) = 2
    /\ Len(content) = 2


\* C5: close is idempotent and unlocks at most once: a backend issues at most
\* one unlock over its life, and its second and later close return Ok.
C5_CloseUnlocksAtMostOnce ==
    /\ \A h \in Handles : unlockCalls[h] <= 1
    /\ (lastOp.op = "close" /\ closeCalls[lastOp.h] >= 2) => lastOp.res = "Ok"

\* C9: without lock support every new succeeds with lock_supported = false,
\* whatever backends are already open, no handle ever holds a lock, and close
\* returns Ok without issuing an unlock.
C9_UnsupportedLockNeverBlocks ==
    ~lockSupport =>
        /\ holders = {}
        /\ \A h \in Handles :
              /\ IsOpen(h) => backend[h] = Built(FALSE)
              /\ unlockCalls[h] = 0
        /\ lastOp.op = "new"
           => lastOp.res = "Ok" /\ backend[lastOp.h] = Built(FALSE)
        /\ lastOp.op = "close" => lastOp.res = "Ok"

\* C9 witness: without lock support every handle has a backend open at once,
\* and one of them has just been closed a second time
C9_Witness ==
    /\ ~lockSupport
    /\ \A h \in Handles : IsOpen(h)
    /\ lastOp.op = "close" /\ lastOp.res = "Ok"
    /\ closeCalls[lastOp.h] = 2
    /\ \E g \in Handles : closeCalls[g] = 0

\* the lock state of the backend over handle h
LockState(h) ==
    IF ~IsOpen(h) THEN "Unopened"
    ELSE IF closeCalls[h] > 0 THEN "Closed"
    ELSE IF backend[h].lock_supported THEN "Locked" ELSE "Unlocked"

\* the moves of a backend's lock state that one step may make
LockMoves ==
    {<<"Unopened", "Unopened">>, <<"Unopened", "Locked">>,
     <<"Unopened", "Unlocked">>, <<"Locked", "Locked">>,
     <<"Locked", "Closed">>, <<"Unlocked", "Unlocked">>,
     <<"Unlocked", "Closed">>, <<"Closed", "Closed">>}

\* C10: a backend goes Unopened -> Locked -> Closed or Unopened -> Unlocked ->
\* Closed and nowhere else; lock_supported is set by new and never changes;
\* a handle gains the lock only in the new that builds its backend Locked and
\* loses it only in a close of that backend; a Locked backend holds the lock,
\* an Unopened or Unlocked one does not, and a closed backend that no longer
\* holds the lock never holds it again.  (A step that leaves backend,
\* closeCalls and holders alone moves no lock state.)
C10_LockStateMachine ==
    [][\/ UNCHANGED <<backend, closeCalls, holders>>
       \/ \A h \in Handles :
        /\ <<LockState(h), LockState(h)'>> \in LockMoves
        /\ IsOpen(h) => backend'[h] = backend[h]
        /\ LockState(h)' = "Locked" => h \in holders'
        /\ LockState(h)' \in {"Unopened", "Unlocked"} => h \notin holders'
        /\ (h \notin holders /\ h \in holders')
           => /\ LockState(h) = "Unopened" /\ LockState(h)' = "Locked"
              /\ lastOp'.op = "new" /\ lastOp'.h = h /\ lastOp'.res = "Ok"
        /\ (h \in holders /\ h \notin holders')
           => /\ closeCalls'[h] = closeCalls[h] + 1
              /\ LockState(h)' = "Closed"
              /\ lastOp'.op = "close" /\ lastOp'.h = h
        /\ (LockState(h) = "Closed" /\ h \notin holders) => h \notin holders']_vars

\* C10 witness: one backend has been closed and has released the lock, another
\* is Locked and holds it, and a write has completed since
C10_Witness ==
    /\ lastOp.op = "write" /\ lastOp.res = "Ok"
    /\ \E h, g \in Handles :
          /\ LockState(h) = "Closed" /\ backend[h].lock_supported
          /\ h \notin holders
          /\ LockState(g) = "Locked" /\ g \in holders


\* close has been called on every backend there is (and there is one)
AllClosed ==
    /\ SomeBackend
    /\ \A h \in Handles : IsOpen(h) => closeCalls[h] > 0

\* C11: close leaves the file's content and extent, the backend and its file
\* handle as they were, and on a backend that was closed len, read, write,
\* set_len and sync_data can still be called and act on the file as they do
\* on one that was not: their results are the same functions of the file.
C11_CloseKeepsFileUsable ==
    [][/\ \A h \in Handles :
             closeCalls'[h] # closeCalls[h]
             => /\ content' = content
                /\ backend'[h] = backend[h]
                /\ IsOpen(h)'
                /\ call' = Idle
       /\ (AllClosed /\ lastOp.op = "close")
          => /\ ENABLED FileLen
             /\ ENABLED SetLen(0)
             /\ ENABLED SyncData(TRUE) /\ ENABLED SyncData(FALSE)
             /\ ENABLED Read(0, 0) \/ ENABLED WinReadCall(0, 0)
             /\ ENABLED Write(0, <<>>) \/ ENABLED WinWriteCall(0, <<>>)
       /\ AllClosed'
          => /\ (lastOp'.op = "len" /\ lastOp'.res = "Ok")
                => lastOp'.val = Len(content')
             /\ (lastOp'.op = "set_len" /\ lastOp'.res = "Ok")
                => Len(content') = lastOp'.len
             /\ (lastOp'.op = "read" /\ lastOp'.res = "Ok")
                => /\ lastOp'.o + lastOp'.len <= Len(content') \/ lastOp'.len = 0
                   /\ lastOp'.buf = FileRange(content', lastOp'.o, lastOp'.len)
             /\ (lastOp'.op = "write" /\ lastOp'.res = "Ok")
                => FileRange(content', lastOp'.o, Len(lastOp'.data))
                   = lastOp'.data
             /\ (lastOp'.op = "sync_data" /\ lastOp' # lastOp)
                => content' = content]_vars

\* C11 witness: bytes written before close are read back, Ok, after the
\* backend was closed
C11_Witness ==
    /\ AllClosed
    /\ lastOp.op = "read" /\ lastOp.res = "Ok"
    /\ lastOp.o = 0 /\ lastOp.len = 2
    /\ lastOp.buf = <<1, 0>>
    /\ content = <<1, 0>>

\* C12: sync_data, with eventual true or false, changes no byte of the file
\* and not its extent, and returns Ok unless the sync primitive itself
\* fails: a read or len that follows it, after writes that returned Ok,
\* returns the bytes and the extent the file had before the sync.
C12_SyncContentNeutral ==
    [][/\ (lastOp'.op = "sync_data" /\ lastOp' # lastOp)
          => /\ content' = content
             /\ call' = Idle
             /\ lastOp'.res = "Ok" <=> lastOp'.code = 0
       /\ (lastOp.op = "sync_data" /\ lastOp'.op = "len" /\ lastOp'.res = "Ok")
          => lastOp'.val = Len(content)
       /\ (lastOp.op = "sync_data" /\ lastOp'.op = "read" /\ lastOp'.res = "Ok")
          => lastOp'.buf = FileRange(content, lastOp'.o, lastOp'.len)]_vars

\* C12 witness: sync_data(true) has returned Ok over a file whose bytes a
\* write put there
C12_Witness ==
    /\ lastOp.op = "sync_data" /\ lastOp.eventual /\ lastOp.res = "Ok"
    /\ content = <<1, 0>>

\* C13: on the retry-loop read path a seek_read that returns zero bytes
\* before the buffer is full ends the read with an error: the loop never
\* goes on to another call after a call that made no progress.
C13_ReadStopsOnZeroProgress ==
    [][(call.op = "read" /\ call'.op = "read") => call'.last > 0]_vars

\* C14: on the retry-loop write path a seek_write that reports zero bytes
\* written while data remains ends the write with an error: the loop never
\* goes on to another call after a call that made no progress.
C14_WriteStopsOnZeroProgress ==
    [][(call.op = "write" /\ call'.op = "write") => call'.last > 0]_vars

\* the bytes requested of the loop cl
Requested(cl) == IF cl.op = "read" THEN cl.len ELSE Len(cl.data)

\* a seek_read / seek_write call of the loop cl has moved no byte
Stalled(cl) == cl.calls = Requested(cl) + 1

\* the loop cl has moved exactly the first data_offset bytes of its range,
\* each to its place, and nothing else: for a read over file c the buffer
\* holds them and is untouched (zero) beyond, for a write file c holds them
\* and every byte it had on entry outside [o, o+data_offset) is as it was
Transferred(cl, c) ==
    IF cl.op = "read"
    THEN \A i \in 1..cl.len :
            cl.buffer[i] = IF i <= cl.data_offset THEN c[cl.o + i] ELSE 0
    ELSE /\ Len(c) = IF cl.data_offset = 0 THEN Len(cl.c0)
                     ELSE Max(Len(cl.c0), cl.o + cl.data_offset)
         /\ \A i \in 1..Len(c) :
               IF i > cl.o /\ i <= cl.o + cl.data_offset
               THEN c[i] = cl.data[i - cl.o]
               ELSE i <= Len(cl.c0) => c[i] = cl.c0[i]

\* C15: in the retry loops the file offset is always the starting offset
\* plus data_offset and data_offset never exceeds the requested length; when
\* every seek_read / seek_write call makes progress (1..remaining bytes) the
\* loop makes at most n calls; and whatever the progress counts, the bytes
\* moved so far are each in their place, so that Ok is returned with the
\* buffer equal to file bytes [o, o+n), or file bytes [o, o+n) equal to data
\* and no byte outside the range changed.
C15_RetryLoopInvariant ==
    [][/\ call'.op \in {"read", "write"}
          => /\ call'.offset = call'.o + call'.data_offset
             /\ call'.data_offset < Requested(call')
             /\ ~Stalled(call') => call'.calls <= call'.data_offset
             /\ Transferred(call', content')
       /\ (call.op \in {"read", "write"} /\ call'.op = "idle"
           /\ lastOp'.res = "Ok")
          => /\ ~Stalled(call) => call.calls + 1 <= Requested(call)
             /\ call.op = "read"
                => lastOp'.buf = FileRange(content', call.o, call.len)
             /\ call.op = "write"
                => Transferred([call EXCEPT !.data_offset = Len(call.data)],
                               content')]_vars

\* C15 witness: a write of two bytes has returned Ok and the read of them
\* back is half way, one seek_read call having moved one byte
C15_Witness ==
    /\ platform = "windows"
    /\ lastOp.op = "write" /\ lastOp.res = "Ok" /\ lastOp.data = <<1, 0>>
    /\ content = <<1, 0>>
    /\ call.op = "read" /\ call.len = 2 /\ call.calls = 1
    /\ call.data_offset = 1 /\ call.buffer = <<1, 0>>

\* C17: new has four outcomes and the result of try_lock alone picks one:
\* acquired -> Ok, a backend with lock_supported = true that holds the lock;
\* contended -> DatabaseAlreadyOpen; unsupported -> Ok, a backend with
\* lock_supported = false; any other error -> an I/O error; and in the
\* two failures no backend is built, in all but the first no lock is held.
C17_NewFourOutcomes ==
    lastOp.op = "new" =>
        LET h == lastOp.h IN
        /\ lastOp.lock \in {"Ok", "WouldBlock", "Unsupported", "Error"}
        /\ lastOp.lock = "Ok"
           => /\ lastOp.res = "Ok"
              /\ backend[h] = Built(TRUE) /\ h \in holders
        /\ lastOp.lock = "WouldBlock"
           => /\ lastOp.res = "Err(DatabaseAlreadyOpen)"
              /\ backend[h] = Unopened /\ h \notin holders
        /\ lastOp.lock = "Unsupported"
           => /\ lastOp.res = "Ok"
              /\ backend[h] = Built(FALSE) /\ h \notin holders
        /\ lastOp.lock = "Error"
           => /\ lastOp.res = "Err(Os)"
              /\ backend[h] = Unopened /\ h \notin holders

\* C17 witness: try_lock failed with another error, new returned it, no
\* backend was built and nobody holds the lock
C17_Witness ==
    /\ lastOp.op = "new" /\ lastOp.lock = "Error" /\ lastOp.res = "Err(Os)"
    /\ backend[lastOp.h] = Unopened
    /\ holders = {}

\* C18: sync_data calls exactly one primitive: the barrier when the build
\* has one (macos) and eventual is true, the full data sync in every other
\* case; the barrier's failure (return code -1), and nothing else, makes the
\* barrier variant return an I/O error.
C18_SyncPrimitiveChoice ==
    lastOp.op = "sync_data" =>
        /\ lastOp.did \in {"barrier", "full"}
        /\ lastOp.did = "barrier" <=> (platform = "macos" /\ lastOp.eventual)
        /\ lastOp.did = "barrier"
           => (lastOp.res = "Err(Os)" <=> lastOp.code = -1)
        /\ lastOp.res \in {"Ok", "Err(Os)"}

\* C18 witness: on macos sync_data(true) made the barrier call, which failed,
\* and returned the error
C18_Witness ==
    /\ platform = "macos"
    /\ lastOp.op = "sync_data" /\ lastOp.eventual
    /\ lastOp.did = "barrier" /\ lastOp.code = -1 /\ lastOp.res = "Err(Os)"

\* C19: close on one backend never releases the lock another backend holds:
\* every other holder of the lock holds it after the close too, and a new
\* that follows such a close while another open backend holds the lock still
\* returns DatabaseAlreadyOpen and leaves the lock where it is.
C19_CloseKeepsOthersLock ==
    [][/\ \A h \in Handles :
             closeCalls'[h] # closeCalls[h]
             => \A g \in Handles \ {h} : g \in holders => g \in holders'
       /\ (/\ lastOp.op = "close"
           /\ \E g \in Handles \ {lastOp.h} : LockedLive(g) /\ g \in holders
           /\ lastOp'.op = "new")
          => /\ lastOp'.res = "Err(DatabaseAlreadyOpen)"
             /\ holders' = holders]_vars

\* C19 witness: backend A has been closed a second time, calling unlock
\* again, after B acquired the lock A's first close freed; B still holds it
C19_Witness ==
    /\ lastOp.op = "close"
    /\ closeCalls[lastOp.h] = 2 /\ unlockCalls[lastOp.h] = 2
    /\ ~lastOp.held
    /\ \E g \in Handles \ {lastOp.h} : LockedLive(g) /\ holders = {g}

\* C20: when seek_write fails after the loop has written k bytes in all
\* (0 <= k < |data|), write returns the error and undoes nothing: the file
\* holds data[0..k) at [o, o+k) and every byte it had outside that range is
\* unchanged.
C20_FailedWriteNotRolledBack ==
    [][(call.op = "write" /\ call'.op = "idle" /\ lastOp'.res # "Ok")
       => /\ lastOp'.op = "write" /\ lastOp'.res = "Err(Os)"
          /\ lastOp'.o = call.o /\ lastOp'.data = call.data
          /\ call.data_offset < Len(call.data)
          /\ content' = content
          /\ Transferred(call, content')]_vars

\* C20 witness: a write of two bytes to the empty file has returned the
\* error of its second seek_write call, and the first byte is in the file
C20_Witness ==
    /\ platform = "windows"
    /\ lastOp.op = "write" /\ lastOp.res = "Err(Os)"
    /\ lastOp.o = 0 /\ lastOp.data = <<1, 1>> /\ lastOp.len0 = 0
    /\ content = <<1>>

\* byte i of the file lies in the range [o, o+n)
InRange(i, o, n) == i > o /\ i <= o + n

\* a step of the threads keeps the calls apart: a byte changes only within
\* the range of the write that made the step, the extent stays, a write
\* that returns Ok leaves its data at its range and a read that returns Ok
\* returns the bytes of its range
RangesIndependent ==
    /\ Len(content') = Len(content)
    /\ \A i \in 1..Len(content) :
          content'[i] # content[i]
          => \/ /\ lastOp'.op = "write"
                /\ InRange(i, lastOp'.o, Len(lastOp'.data))
             \/ \E t \in Threads :
                   /\ tcall[t].op = "write" /\ tcall'[t] # tcall[t]
                   /\ InRange(i, tcall[t].o, Len(tcall[t].data))
    /\ (lastOp'.op = "write" /\ lastOp'.res = "Ok")
       => FileRange(content', lastOp'.o, Len(lastOp'.data)) = lastOp'.data
    /\ (lastOp'.op = "read" /\ lastOp'.res = "Ok")
       => lastOp'.buf = FileRange(content', lastOp'.o, lastOp'.len)

\* the calls of threads on disjoint ranges are independent of one another on
\* every build, whatever the interleaving of the retry loops' steps
ThreadRangesIndependent == [][RangesIndependent]_vars

\* C16: under any interleaving of the calls of several threads on one
\* backend, steps of the retry loops included, on pairwise disjoint ranges,
\* each write changes its own range only, each read returns the bytes of
\* its own range, and no read or write moves the file cursor.
C16_PositionalNoCursor ==
    [][RangesIndependent /\ cursor' = cursor]_vars

====
